---- MODULE Spec2Model ----
(***************************************************************************)
(* Model of the MPS bearer-token cache of src/src/app.py: the module-level *)
(* MPS_TOKEN, get_mps_token, initialize_braintree and the routes that use  *)
(* the cached token (/client-token/{m}, /reserve,                          *)
(* /recurring/payment/reserve, /recurring/paypal).                         *)
(*                                                                         *)
(* Routes are plain `def` handlers, which FastAPI runs on a thread pool,   *)
(* so several requests may be in flight at once.  A request is split into  *)
(* steps at every place where it reads or writes MPS_TOKEN and at every    *)
(* blocking network call.  Spec interleaves requests freely; SpecSeq       *)
(* admits a request only when no other request is in flight.               *)
(*                                                                         *)
(* Each worker thread carries the record of the request it serves.  The    *)
(* record of a completed request stays readable until the next request is  *)
(* accepted.                                                               *)
(***************************************************************************)
EXTENDS Integers, FiniteSets, Sequences, TLC

\* ---- bounds ----
NumThreads == 2          \* worker threads serving requests
MaxRequests == 3         \* requests accepted in one behaviour
Threads == 1..NumThreads

\* ---- input alphabets ----
Tokens == {"T1", "T2"}             \* access_token values the identity endpoint issues
ClientTokens == {"abc", "xyz"}     \* clientToken values the partner endpoint issues
Statuses == {200, 401, 500}
\* line 242: the enumerated payment method types
SupportedMethods == {"creditcard", "applepay", "googlepay", "paypal"}
MethodInputs == {"googlepay", "sepa"}

\* An HTTP exchange either fails in transport (httpx.RequestError) or
\* yields a status and a body.  A body is either not the expected JSON
\* document ("malformed") or a JSON document carrying the expected field
\* with the given value.  The identity endpoint may put a token in the
\* body of any answer; the partner endpoints put a clientToken only in a
\* 200 answer.
TransportFailure == [kind |-> "transport", status |-> 0, body |-> "none"]
Pending == [kind |-> "pending", status |-> 0, body |-> "none"]
HttpResponses(statuses, values) ==
    [kind : {"http"}, status : statuses, body : {"malformed"} \cup values]
IdentityResponses ==
    {TransportFailure} \cup HttpResponses({200, 500}, Tokens)
PartnerResponses ==
    {TransportFailure} \cup HttpResponses({200}, ClientTokens)
                       \cup HttpResponses(Statuses \ {200}, {})

NoResult == [type |-> "none", value |-> ""]
Raise(t) == [type |-> t, value |-> ""]
Return(v) == [type |-> "ok", value |-> v]

\* the record of a thread that serves no request
Blank ==
    [pc |-> "idle",          \* position of the request
     route |-> "none",       \* which handler serves it
     method |-> "none",      \* payment_method path argument
     bearer |-> "",          \* token placed in headers_dict["Authorization"]
     response |-> "none",    \* the local `response` of initialize_braintree ("none" for {})
     result |-> NoResult,    \* what the handler returned or raised
     fetches |-> 0,          \* get_mps_token invocations made by the request
     posts |-> 0,            \* partner POSTs issued by the request
     idResp |-> Pending,     \* answer of the identity endpoint
     postResp |-> Pending,   \* answer of the partner endpoint
     entryTok |-> "",        \* MPS_TOKEN when the request entered its handler
     tokAtPost |-> "",       \* MPS_TOKEN when the request issued its partner POST
     endTok |-> "",          \* MPS_TOKEN when the request ended
     after401 |-> FALSE,     \* first initialize_braintree call after a call that cleared the cache
     freshSince |-> FALSE]   \* the cache holds a token fetched after this request's POST was sent

VARIABLES
    MPS_TOKEN,    \* the module-level cache, "" when empty
    started,      \* number of requests accepted so far
    req,          \* per thread, the record of its request
    pending401    \* an initialize_braintree call that entered with a token was
                  \* answered 401, and no initialize_braintree call began since

vars == <<MPS_TOKEN, started, req, pending401>>

InFlight(c) == req[c].pc \notin {"idle", "done"}
Quiescent == \A c \in Threads : ~InFlight(c)

Init ==
    /\ MPS_TOKEN = ""
    /\ started = 0
    /\ req = [c \in Threads |-> Blank]
    /\ pending401 = FALSE

\* ---- pure helpers ----

\* variant: the validation accepts every argument
IsSupported_Any(m) == TRUE

\* line 242: `payment_method not in [...]`
IsSupported(m) == m \in SupportedMethods

\* variant: the token is fetched on every call
NeedsFetch_Always(tok) == TRUE

\* line 143: `if not MPS_TOKEN`
NeedsFetch(tok) == tok = ""

\* line 132: response.raise_for_status() raises unless the status is 2xx
is_success(status) == status \in 200..299

\* variant: a 401 does not clear the cache
TokenAfterStatusError_NoClear(status, tok) == tok

\* variant: every error status clears the cache
TokenAfterStatusError_AnyError(status, tok) == IF status >= 400 THEN "" ELSE tok

\* lines 147-148: the cache after an HTTPStatusError with the given status
TokenAfterStatusError(status, tok) == IF status = 401 THEN "" ELSE tok

\* variant: a 401 falls through to the next loop iteration
RaisesAfterStatusError_RetryOn401(status) == status # 401

\* lines 146-152: the raise follows the `if` of line 147, it is not inside
\* it, so the handler raises for every status
RaisesAfterStatusError(status) == TRUE

\* loads(text)[field]  (lines 106 and 157)
loads_field(body) ==
    IF body = "malformed" THEN Raise("ValueError") ELSE Return(body)

\* lines 104-106: the status of the answer is never inspected
get_mps_token(r) ==
    IF r.kind = "transport" THEN Raise("RequestError") ELSE loads_field(r.body)

\* line 119, 261, 300, 339: f"bearer {MPS_TOKEN}", evaluated when the dict is built
headers_dict(tok) == tok

\* ---- bookkeeping shared by the actions ----

\* thread c, the first free one, accepts a request; records of completed
\* requests are dropped, so two completed records are only ever seen
\* together when the later request was accepted while the earlier one was
\* still in flight
Accept(c, rec) ==
    /\ started < MaxRequests
    /\ ~InFlight(c)
    /\ \A d \in Threads : d < c => InFlight(d)
    /\ started' = started + 1
    /\ req' = [d \in Threads |->
                 IF d = c THEN rec ELSE IF InFlight(d) THEN req[d] ELSE Blank]

Finished(rec, res, tok) ==
    [rec EXCEPT !.pc = "done", !.result = res, !.endTok = tok]

\* post_call() sends the request built from headers_dict (lines 128-131)
PostSent(rec, tok) ==
    [rec EXCEPT !.pc = "posting", !.posts = @ + 1, !.tokAtPost = tok,
                !.freshSince = FALSE]

\* ---- POST /client-token/{payment_method} ----

\* lines 239-247 and 112-139: validate, then build headers_dict from the
\* current MPS_TOKEN and enter the loop with response = {}
CreateClientToken(c, m) ==
    LET rec == [Blank EXCEPT !.route = "client-token", !.method = m,
                             !.entryTok = MPS_TOKEN] IN
    /\ IF ~IsSupported(m)
       THEN /\ Accept(c, Finished(rec, Raise("HTTP400"), MPS_TOKEN))
            /\ UNCHANGED pending401
       ELSE /\ Accept(c, [rec EXCEPT !.bearer = headers_dict(MPS_TOKEN),
                                     !.response = "none",
                                     !.pc = "loop",
                                     !.after401 = pending401])
            /\ pending401' = FALSE
    /\ UNCHANGED MPS_TOKEN

\* lines 140-145 and 157: the loop test, then either the return or the
\* token test followed by the start of the fetch or of the POST
LoopIter(c) ==
    /\ req[c].pc = "loop"
    /\ req' = [req EXCEPT ![c] =
                 IF @.response # "none"
                 THEN Finished(@, loads_field(@.response), MPS_TOKEN)
                 ELSE IF NeedsFetch(MPS_TOKEN)
                 THEN [@ EXCEPT !.pc = "fetching", !.fetches = @ + 1]
                 ELSE PostSent(@, MPS_TOKEN)]
    /\ UNCHANGED <<MPS_TOKEN, started, pending401>>

\* lines 144-145 and 153-155: the identity endpoint answers; on a token
\* the cache is set and the POST is sent
FetchResponse(c, r) ==
    /\ req[c].pc = "fetching"
    /\ LET out == get_mps_token(r)
           rec == [req[c] EXCEPT !.idResp = r] IN
       IF out.type = "ok"
       THEN /\ MPS_TOKEN' = out.value
            /\ req' = [d \in Threads |->
                         IF d = c THEN PostSent(rec, out.value)
                         ELSE IF req[d].pc = "posting"
                         THEN [req[d] EXCEPT !.freshSince = TRUE]
                         ELSE req[d]]
       ELSE /\ MPS_TOKEN' = MPS_TOKEN
            /\ req' = [req EXCEPT ![c] =
                         Finished(rec, IF out.type = "RequestError"
                                       THEN Raise("RuntimeError") ELSE out,
                                  MPS_TOKEN)]
    /\ UNCHANGED <<started, pending401>>

\* lines 132-137 and 146-155: the partner endpoint answers the POST
PostResponse(c, r) ==
    /\ req[c].pc = "posting"
    /\ LET rec == [req[c] EXCEPT !.postResp = r] IN
       IF r.kind = "transport"
       THEN /\ MPS_TOKEN' = MPS_TOKEN
            /\ req' = [req EXCEPT ![c] = Finished(rec, Raise("RuntimeError"), MPS_TOKEN)]
            /\ UNCHANGED pending401
       ELSE IF ~is_success(r.status)
       THEN /\ MPS_TOKEN' = TokenAfterStatusError(r.status, MPS_TOKEN)
            /\ req' = [d \in Threads |->
                         IF d = c
                         THEN IF RaisesAfterStatusError(r.status)
                              THEN Finished(rec, Raise("RuntimeError"), MPS_TOKEN')
                              ELSE [rec EXCEPT !.pc = "loop"]
                         ELSE IF MPS_TOKEN' # MPS_TOKEN
                         THEN [req[d] EXCEPT !.freshSince = FALSE]
                         ELSE req[d]]
            /\ pending401' = (pending401 \/ (r.status = 401 /\ rec.entryTok # ""))
       ELSE /\ MPS_TOKEN' = MPS_TOKEN
            /\ req' = [req EXCEPT ![c] = [rec EXCEPT !.response = r.body, !.pc = "loop"]]
            /\ UNCHANGED pending401
    /\ UNCHANGED started

\* ---- the checkout routes ----

\* headers built from MPS_TOKEN, then client.post (e.g. lines 258-285)
SendCheckoutPost(c, rt) ==
    /\ Accept(c, [Blank EXCEPT !.route = rt, !.entryTok = MPS_TOKEN,
                               !.bearer = headers_dict(MPS_TOKEN),
                               !.pc = "checkout", !.posts = 1,
                               !.tokAtPost = MPS_TOKEN])
    /\ UNCHANGED <<MPS_TOKEN, pending401>>

reserve(c) == SendCheckoutPost(c, "reserve")
reserve_recurring(c) == SendCheckoutPost(c, "recurring_reserve")
recurring_paypal(c) == SendCheckoutPost(c, "recurring_paypal")

\* lines 284-288, 323-327, 361-365: the answer is returned as it comes
\* (data.text, or data.json() for /recurring/paypal); the status is not read
CheckoutResponse(c, r) ==
    /\ req[c].pc = "checkout"
    /\ req' = [req EXCEPT ![c] =
                 Finished([@ EXCEPT !.postResp = r],
                          IF r.kind = "transport" THEN Raise("RequestError")
                          ELSE IF @.route = "recurring_paypal" /\ r.body = "malformed"
                               THEN Raise("ValueError")
                          ELSE Return(r.body),
                          MPS_TOKEN)]
    /\ UNCHANGED <<MPS_TOKEN, started, pending401>>

\* ---- specifications ----
Step(c) ==
    \/ LoopIter(c)
    \/ \E r \in IdentityResponses : FetchResponse(c, r)
    \/ \E r \in PartnerResponses : PostResponse(c, r)
    \/ \E r \in PartnerResponses : CheckoutResponse(c, r)

Begin(c) ==
    \/ \E m \in MethodInputs : CreateClientToken(c, m)
    \/ reserve(c)
    \/ reserve_recurring(c)
    \/ recurring_paypal(c)

Next == \E c \in Threads : Begin(c) \/ Step(c)

Spec == Init /\ [][Next]_vars

\* one request at a time
NextSeq == \E c \in Threads : (Quiescent /\ Begin(c)) \/ Step(c)

SpecSeq == Init /\ [][NextSeq]_vars

\* a handler runs to completion on its thread, and every outbound call is
\* made with timeout=10.0, so it ends in an answer or in a transport error
FairSeq == SpecSeq /\ \A c \in Threads : WF_vars(Step(c))

\* ---- properties ----
IsInit(r) == r.route = "client-token" /\ IsSupported(r.method)
Answered(resp) == resp.kind # "pending"
StatusIs(resp, st) == resp.kind = "http" /\ resp.status = st
Failed(r) == r.pc = "done" /\ r.result.type \notin {"none", "ok"}

\* C1: an initialize call that starts with a cached token and whose partner
\* POST is answered 401 ends in an error and leaves MPS_TOKEN empty; the
\* next initialize call fetches a token before it issues its partner POST.
C1_UnauthorizedClearsAndNextRefetches ==
    \A c \in Threads :
        /\ (IsInit(req[c]) /\ req[c].pc = "done" /\ req[c].entryTok # ""
              /\ StatusIs(req[c].postResp, 401))
           => (req[c].result.type = "RuntimeError" /\ req[c].endTok = "")
        /\ (req[c].after401 /\ req[c].posts >= 1) => req[c].fetches >= 1

C1_Witness ==
    \E c \in Threads : req[c].after401 /\ req[c].posts >= 1

\* C2: the bearer token sent in the partner POST of an initialize call
\* equals the value MPS_TOKEN holds when the POST is issued.
C2_BearerIsCachedToken ==
    \A c \in Threads :
        (IsInit(req[c]) /\ req[c].posts >= 1) => req[c].bearer = req[c].tokAtPost

\* C3: when two initialize calls overlap, starting from an empty cache with
\* an identity endpoint that issues T, exactly one token fetch is made in
\* total and MPS_TOKEN holds T once both have completed (stated for the
\* runs in which no partner POST is answered 401, so that nothing clears
\* the cache).  The records of the first two requests are both present
\* only when the second was accepted before the first completed.
C3_SingleFlight ==
    \A T \in Tokens :
        ( /\ started = 2
          /\ \A c \in {1, 2} :
                /\ IsInit(req[c]) /\ req[c].pc = "done"
                /\ ~StatusIs(req[c].postResp, 401)
                /\ req[c].fetches >= 1 =>
                      (StatusIs(req[c].idResp, 200) /\ req[c].idResp.body = T) )
        => (req[1].fetches + req[2].fetches = 1 /\ MPS_TOKEN = T)

\* the partner stub of the round trip: 200 with clientToken C to a request
\* bearing T, 401 to any other bearer value
StubObeyed(r, T, C) ==
    \/ r.bearer = T /\ StatusIs(r.postResp, 200) /\ r.postResp.body = C
    \/ r.bearer # T /\ StatusIs(r.postResp, 401)

\* C4: in a fresh process, with an identity endpoint issuing T and a partner
\* endpoint answering 200 with clientToken C to bearer T and 401 to any
\* other bearer, initialize("googlepay") returns exactly C.
C4_RoundTrip ==
    \A c \in Threads : \A T \in Tokens : \A C \in ClientTokens :
        ( /\ started = 1 /\ IsInit(req[c]) /\ req[c].method = "googlepay"
          /\ req[c].pc = "done" /\ req[c].entryTok = ""
          /\ StatusIs(req[c].idResp, 200) /\ req[c].idResp.body = T
          /\ StubObeyed(req[c], T, C) )
        => req[c].result = Return(C)

\* C5: an initialize call that starts with a cached token and whose partner
\* POST is answered 2xx with {clientToken: C} returns C, makes no token
\* fetch and leaves MPS_TOKEN as it was.
C5_SuccessKeepsCache ==
    \A c \in Threads :
        ( /\ IsInit(req[c]) /\ req[c].pc = "done" /\ req[c].entryTok # ""
          /\ req[c].postResp.kind = "http" /\ is_success(req[c].postResp.status)
          /\ req[c].postResp.body \in ClientTokens )
        => /\ req[c].result = Return(req[c].postResp.body)
           /\ req[c].fetches = 0
           /\ req[c].endTok = req[c].entryTok

C5_Witness ==
    \E c \in Threads :
        /\ IsInit(req[c]) /\ req[c].pc = "done" /\ req[c].entryTok # ""
        /\ StatusIs(req[c].postResp, 200) /\ req[c].postResp.body \in ClientTokens

\* the partner POST ended in a transport error or in a non-2xx status other than 401
OtherFailure(resp) ==
    \/ resp.kind = "transport"
    \/ resp.kind = "http" /\ ~is_success(resp.status) /\ resp.status # 401

\* C6: an initialize call whose partner POST ends in a non-2xx status other
\* than 401 or in a transport error fails, and MPS_TOKEN holds afterwards
\* the non-empty value it held when the POST was issued.
C6_OtherFailureKeepsCache ==
    \A c \in Threads :
        (IsInit(req[c]) /\ OtherFailure(req[c].postResp))
        => /\ req[c].pc = "done"
           /\ req[c].result.type = "RuntimeError"
           /\ req[c].tokAtPost # ""
           /\ req[c].endTok = req[c].tokAtPost

C6_Witness ==
    \E c \in Threads :
        /\ IsInit(req[c]) /\ req[c].pc = "done" /\ StatusIs(req[c].postResp, 500)
        /\ req[c].endTok \in Tokens

\* C7: a client-token request for a payment method type outside the
\* enumerated set fails with HTTP 400 without any token fetch or partner
\* POST and without changing MPS_TOKEN.
C7_UnsupportedMethodRejected ==
    \A c \in Threads :
        (req[c].route = "client-token" /\ req[c].method \notin SupportedMethods)
        => /\ req[c].pc = "done"
           /\ req[c].result = Raise("HTTP400")
           /\ req[c].fetches = 0 /\ req[c].posts = 0
           /\ req[c].endTok = req[c].entryTok

C7_Witness ==
    \E c \in Threads :
        /\ req[c].route = "client-token" /\ req[c].method = "sepa"
        /\ req[c].pc = "done" /\ req[c].entryTok \in Tokens

\* C8: when the identity endpoint answers the token fetch with a transport
\* failure or a non-2xx status, whatever the body, the initialize call fails
\* without issuing a partner POST and MPS_TOKEN stays empty.
C8_FetchFailureFails ==
    \A c \in Threads :
        ( /\ IsInit(req[c]) /\ req[c].fetches >= 1
          /\ \/ req[c].idResp.kind = "transport"
             \/ req[c].idResp.kind = "http" /\ ~is_success(req[c].idResp.status) )
        => /\ Failed(req[c])
           /\ req[c].posts = 0
           /\ req[c].endTok = ""

\* C9: once a request whose outbound call carried the cached bearer token
\* and was answered 401 has been handled, MPS_TOKEN is empty.
C9_UnauthorizedAlwaysClears ==
    \A c \in Threads :
        (req[c].pc = "done" /\ req[c].posts >= 1 /\ StatusIs(req[c].postResp, 401))
        => req[c].endTok = ""

\* C10: the clear made by a call handling its 401 never discards a token
\* that another call fetched and stored after the clearing call sent its
\* partner POST.
C10_ClearKeepsNewerToken ==
    [][\A c \in Threads :
          ( /\ req[c].pc = "posting" /\ req[c].freshSince
            /\ req[c].bearer # "" /\ MPS_TOKEN # req[c].bearer
            /\ req'[c].pc = "done" /\ StatusIs(req'[c].postResp, 401) )
          => MPS_TOKEN' = MPS_TOKEN]_vars

\* thread c stores the token its fetch returned
StoresFetched(c) ==
    /\ req[c].pc = "fetching" /\ req'[c].pc = "posting"
    /\ get_mps_token(req'[c].idResp) = Return(MPS_TOKEN')

\* thread c handles a 401 answer to its outbound call
Handles401(c) ==
    /\ req[c].pc \in {"posting", "checkout"} /\ req'[c].pc = "done"
    /\ StatusIs(req'[c].postResp, 401)

\* C11: MPS_TOKEN starts empty and, under any interleaving of requests,
\* changes only from empty to T when a token fetch returns T, or from a
\* token to empty when a partner call is answered 401; it never changes
\* from one token directly to a different token.
C11_CacheLifecycle ==
    /\ MPS_TOKEN = ""
    /\ [][MPS_TOKEN' # MPS_TOKEN =>
            \/ /\ MPS_TOKEN = "" /\ MPS_TOKEN' # ""
               /\ \E c \in Threads : StoresFetched(c)
            \/ /\ MPS_TOKEN # "" /\ MPS_TOKEN' = ""
               /\ \E c \in Threads : Handles401(c)]_vars

\* C12: an initialize call makes at most one token fetch and at most one
\* partner POST, is never back at the loop test with an empty response once
\* it has made either (no second iteration), and terminates, whatever the
\* identity and partner endpoints answer.
C12_SingleIterationTerminates ==
    /\ [](\A c \in Threads :
            IsInit(req[c]) =>
              /\ req[c].fetches <= 1
              /\ req[c].posts <= 1
              /\ (req[c].pc = "loop" /\ req[c].response = "none")
                    => (req[c].fetches = 0 /\ req[c].posts = 0))
    /\ \A c \in Threads :
          (IsInit(req[c]) /\ InFlight(c)) ~> (req[c].pc = "done")

C12_Witness ==
    \E c \in Threads :
        /\ IsInit(req[c]) /\ req[c].pc = "done"
        /\ req[c].fetches = 1 /\ req[c].posts = 1
        /\ StatusIs(req[c].postResp, 401)

====
